---------------------------- MODULE Spec2Model ----------------------------
(***************************************************************************)
(* GistFlow: run orchestrator (main.py, web/api.py) and Notion publisher   *)
(* (core/publisher.py).                                                    *)
(*                                                                         *)
(* Spec     the service in scheduled mode: run_once executions started by  *)
(*          the scheduler job and by POST /api/tasks/run, the control      *)
(*          endpoints, the signal handler and the main loop of             *)
(*          run_scheduled.  fetch_unprocessed answers the pair             *)
(*          (raw_emails, total_count), which run_once binds to `emails`.   *)
(*                                                                         *)
(* DocSpec  the per-document step of the run loop (process_single_email,   *)
(*          _publish_gist, NotionPublisher.push, the ledger and Gmail      *)
(*          writes of the loop body) applied to one RawEmail.  The ledger  *)
(*          database is available: mark_processed and record_error write.  *)
(*                                                                         *)
(* PubSpec  NotionPublisher._append_blocks_in_chunks applied to a list of  *)
(*          blocks and an email-content index.                             *)
(*                                                                         *)
(* TextSpec NotionPublisher._parse_markdown_to_blocks applied to a         *)
(*          markdown text given as units, lines and tokens.                *)
(*                                                                         *)
(* PushSpec NotionPublisher.push applied to any gist, valuable or not.     *)
(*                                                                         *)
(* LedgerSpec  the ledger operations of LocalStore (mark_processed,        *)
(*          unmark_processed, record_error) on a few message ids, the      *)
(*          database available.                                            *)
(*                                                                         *)
(* FetchSpec  EmailFetcher.fetch_unprocessed applied to a mailbox and a    *)
(*          ledger, with the limits MAX_EMAILS_PER_RUN admits.             *)
(*                                                                         *)
(* ApiSpec  the scheduler endpoints and the scheduler's job, with the      *)
(*          answer of POST /api/tasks/start recorded.                      *)
(*                                                                         *)
(* MarkdownSpec  NotionPublisher._parse_markdown_to_blocks applied to a    *)
(*          markdown text given character by character.                    *)
(*                                                                         *)
(* ServiceSpec  Spec without the signal handler.                           *)
(*                                                                         *)
(* FairSpec, PushFairSpec  Spec and PushSpec with every started step of a  *)
(*          run or of a push eventually taken.                             *)
(***************************************************************************)
EXTENDS Integers, Sequences, FiniteSets, TLC

\* ------------------------------------------------------------------ bounds
MaxRuns == 2              \* threads that may execute run_once at one time
MaxEmails == 1            \* unread labelled emails in the mailbox
MaxUids == 3              \* message ids of ledger and mailbox
MaxErrorRows == 1         \* rows of the table processing_errors
MaxLimit == 2             \* largest MAX_EMAILS_PER_RUN tried
MaxContentLen == 4        \* characters of a markdown content tried exhaustively

Runs == 1..MaxRuns
Mailbox == 1..MaxEmails

\* ------------------------------------------------------------------ state
VARIABLES
    is_running,           \* GistFlowPipeline._is_running
    shutdown_requested,   \* GistFlowPipeline._shutdown_requested
    last_run,             \* GistFlowPipeline._last_run
    scheduler,            \* APScheduler state: "stopped" | "running" | "paused"
    mainState,            \* run_scheduled: "polling" | "stopping" | "exited"
    pc,                   \* position of each run_once execution
    origin,               \* who started the execution: "sched" | "api"
    stats,                \* the local dict `stats` of each execution
    emails,               \* the local `emails` of each execution
    idx,                  \* loop index i of each execution
    observed,             \* where the execution saw the shutdown request
    \* --- one document going through the per-document step (DocSpec)
    dpc,                  \* position in process_single_email / loop body
    doc,                  \* message id of the RawEmail being processed
    gist,                 \* the Gist of the document
    pushRet,              \* what NotionPublisher.push returned
    localTried,           \* LocalPublisher.push was called
    processed,            \* ledger table processed_emails (message ids)
    errlog,               \* ledger table processing_errors (message ids)
    gmail_marked,         \* emails whose label was removed in Gmail
    dstats,               \* the counters of `stats` changed by the step
    ledgerCalls,          \* ledger writes made for the document, in order
    publishers,           \* which publishers _init_publishers created
    \* --- NotionPublisher._append_blocks_in_chunks (PubSpec, DocSpec)
    apc,                  \* "idle" | "loop" | "after" | "returned" | "raised"
    nblocks,              \* len(blocks)
    email_idx,            \* email_content_start_index, Nil for None
    offset,               \* loop variable i of the chunk loop
    failed_chunks,        \* failed_chunks
    last_exception,       \* last_exception, "none" for None
    sent,                 \* chunk numbers handed to _append_blocks_with_retry
    requests,             \* the slice blocks[i:i + chunk_size] of each call
    lastCall,             \* the last remote call made through a retry wrapper
    \* --- NotionPublisher._parse_markdown_to_blocks (TextSpec)
    text,                 \* the markdown text, cut into units
    tidx,                 \* units parsed so far
    tblocks,              \* the list `blocks`
    \* --- LocalStore (LedgerSpec), fetch_unprocessed (FetchSpec)
    processed_emails,     \* table processed_emails: a bag of message ids
    processing_errors,    \* table processing_errors: a bag of message ids
    lastOp,               \* the last mark/unmark operation on each id
    inbox,                \* the messages of the IMAP mailbox
    last_fetch,           \* limit and result of the last fetch_unprocessed
    \* --- POST /api/tasks/start (ApiSpec)
    start_response,       \* the last start_scheduler call and its HTTP answer
    \* --- _parse_markdown_to_blocks on characters (MarkdownSpec)
    md_content,           \* the argument `content`, a string of characters
    para_idx,             \* paragraphs of the main loop gone through
    md_blocks             \* the list `blocks`

orchVars == <<is_running, shutdown_requested, last_run, scheduler, mainState,
              pc, origin, stats, emails, idx, observed>>

docVars == <<dpc, doc, gist, pushRet, localTried, processed, errlog,
             gmail_marked, dstats, ledgerCalls, publishers>>

pubVars == <<apc, nblocks, email_idx, offset, failed_chunks, last_exception,
             sent, requests, lastCall>>

textVars == <<text, tidx, tblocks>>

ingestVars ==
    <<processed_emails, processing_errors, lastOp, inbox, last_fetch>>

apiVars == <<start_response>>

mdVars == <<md_content, para_idx, md_blocks>>

vars ==
    <<orchVars, docVars, pubVars, textVars, ingestVars, apiVars, mdVars>>

\* ------------------------------------------------------- run statistics
ZeroStats ==
    [emails_found |-> 0, emails_processed |-> 0, emails_skipped |-> 0,
     gists_created |-> 0, notion_published |-> 0, local_saved |-> 0,
     errors |-> 0]

\* phase strings of _last_run["phase"]
\*   connecting        "正在连接邮箱…"
\*   fetching          "正在获取邮件列表…"
\*   processing i/n    "正在处理第 i/n 封…"
\*   interrupted       "已中断"
\*   completed         "已完成"
\*   completed_errors  "已完成（有错误）"
\*   force_reset       "已强制重置"
Phase(name) == [name |-> name, i |-> 0, n |-> 0]
Processing(i, n) == [name |-> "processing", i |-> i, n |-> n]

NoRun ==
    [exists |-> FALSE, running |-> FALSE,
     finished_at |-> FALSE, stats |-> ZeroStats, phase |-> Phase("none")]

\* started_at and finished_at hold wall-clock strings that the code never
\* compares; finished_at is kept as "is set".

\* `if self._last_run and self._last_run.get("running")`
LastRunning(lr) == lr.exists /\ lr.running

\* ------------------------------------------------------------ mailbox
\* EmailFetcher.fetch_unprocessed returns the pair (raw_emails, total_count)
FetchUnprocessed ==
    LET list == [k \in 1..MaxEmails |-> k]
    IN  << [kind |-> "list", items |-> list],
           [kind |-> "int", items |-> << >>] >>

\* a RawEmail has .subject and .message_id; the list and the count do not
IsRawEmail(x) == x.kind = "email"

Alive == mainState # "exited"

\* ------------------------------------------------------------- run_once
\* main.py:220  `if self._is_running:` ... return the already-running result
RunOnceGuard(r) ==
    /\ UNCHANGED <<textVars, ingestVars, apiVars, mdVars>>
    /\ UNCHANGED <<docVars, pubVars>>
    /\ Alive /\ pc[r] = "guard"
    /\ pc' = [pc EXCEPT ![r] = IF is_running THEN "rejected" ELSE "set"]
    /\ UNCHANGED <<is_running, shutdown_requested, last_run, scheduler,
                   mainState, origin, stats, emails, idx, observed>>

\* a rejected call that releases the flag on its way out
RunOnceRejectedReleases(r) ==
    /\ UNCHANGED <<textVars, ingestVars, apiVars, mdVars>>
    /\ UNCHANGED <<docVars, pubVars>>
    /\ Alive /\ pc[r] = "rejected"
    /\ is_running' = FALSE
    /\ pc' = [pc EXCEPT ![r] = "idle"]
    /\ origin' = [origin EXCEPT ![r] = "none"]
    /\ UNCHANGED <<shutdown_requested, last_run, scheduler,
                   mainState, stats, emails, idx, observed>>

\* main.py:222-233  the rejected call returns the already-running result
RunOnceRejected(r) ==
    /\ UNCHANGED <<textVars, ingestVars, apiVars, mdVars>>
    /\ UNCHANGED <<docVars, pubVars>>
    /\ Alive /\ pc[r] = "rejected"
    /\ pc' = [pc EXCEPT ![r] = "idle"]
    /\ origin' = [origin EXCEPT ![r] = "none"]
    /\ UNCHANGED <<is_running, shutdown_requested, last_run, scheduler,
                   mainState, stats, emails, idx, observed>>

\* main.py:235-252  set the flag, create stats and _last_run
RunOnceSet(r) ==
    /\ UNCHANGED <<textVars, ingestVars, apiVars, mdVars>>
    /\ UNCHANGED <<docVars, pubVars>>
    /\ Alive /\ pc[r] = "set"
    /\ is_running' = TRUE
    /\ stats' = [stats EXCEPT ![r] = ZeroStats]
    /\ last_run' = [exists |-> TRUE, running |-> TRUE,
                    finished_at |-> FALSE, stats |-> ZeroStats,
                    phase |-> Phase("connecting")]
    /\ emails' = [emails EXCEPT ![r] = << >>]
    /\ idx' = [idx EXCEPT ![r] = 0]
    /\ observed' = [observed EXCEPT ![r] = "none"]
    /\ pc' = [pc EXCEPT ![r] = "connect"]
    /\ UNCHANGED <<shutdown_requested, scheduler, mainState, origin>>

\* main.py:276-279  stats["emails_found"] = len(emails); sync to _last_run
FoundStats(st, es) == [st EXCEPT !.emails_found = Len(es)]

SyncStats(lr, st) == IF lr.exists THEN [lr EXCEPT !.stats = st] ELSE lr

MarkInterrupted(lr) ==
    IF LastRunning(lr) THEN [lr EXCEPT !.phase = Phase("interrupted")] ELSE lr

\* main.py:257-265  connect the mailbox, first shutdown check
RunOnceConnect(r) ==
    /\ UNCHANGED <<textVars, ingestVars, apiVars, mdVars>>
    /\ UNCHANGED <<docVars, pubVars>>
    /\ Alive /\ pc[r] = "connect"
    /\ \E connected \in BOOLEAN :
         IF ~connected
         THEN \* ImapToolsError or imaplib.IMAP4.error, main.py:342-350
              /\ stats' = [stats EXCEPT ![r].errors = @ + 1]
              /\ pc' = [pc EXCEPT ![r] = "finish"]
              /\ UNCHANGED <<last_run, emails, observed>>
         ELSE IF shutdown_requested
              THEN /\ emails' = [emails EXCEPT ![r] = << >>]
                   /\ stats' = [stats EXCEPT ![r] = FoundStats(@, << >>)]
                   /\ last_run' = SyncStats(MarkInterrupted(last_run),
                                            FoundStats(stats[r], << >>))
                   /\ observed' = [observed EXCEPT ![r] = "before_fetch"]
                   /\ pc' = [pc EXCEPT ![r] = "loop"]
              ELSE /\ last_run' = [last_run EXCEPT !.phase = Phase("fetching")]
                   /\ pc' = [pc EXCEPT ![r] = "fetch"]
                   /\ UNCHANGED <<stats, emails, observed>>
    /\ UNCHANGED <<is_running, shutdown_requested, scheduler, mainState,
                   origin, idx>>

\* main.py:266-279  fetch, second shutdown check, emails_found
RunOnceFetch(r) ==
    /\ UNCHANGED <<textVars, ingestVars, apiVars, mdVars>>
    /\ UNCHANGED <<docVars, pubVars>>
    /\ Alive /\ pc[r] = "fetch"
    /\ \E fetched \in BOOLEAN :
         IF ~fetched
         THEN /\ stats' = [stats EXCEPT ![r].errors = @ + 1]
              /\ pc' = [pc EXCEPT ![r] = "finish"]
              /\ UNCHANGED <<last_run, emails, observed>>
         ELSE LET got == IF shutdown_requested THEN << >> ELSE FetchUnprocessed
                  lr1 == IF shutdown_requested
                         THEN MarkInterrupted(last_run) ELSE last_run
              IN  /\ emails' = [emails EXCEPT ![r] = got]
                  /\ stats' = [stats EXCEPT ![r] = FoundStats(@, got)]
                  /\ last_run' = SyncStats(lr1, FoundStats(stats[r], got))
                  /\ observed' = [observed EXCEPT ![r] =
                                    IF shutdown_requested THEN "after_fetch" ELSE @]
                  /\ pc' = [pc EXCEPT ![r] = "loop"]
    /\ UNCHANGED <<is_running, shutdown_requested, scheduler, mainState,
                   origin, idx>>

\* main.py:283-292  top of one loop iteration
RunOnceLoop(r) ==
    /\ UNCHANGED <<textVars, ingestVars, apiVars, mdVars>>
    /\ UNCHANGED <<docVars, pubVars>>
    /\ Alive /\ pc[r] = "loop"
    /\ IF idx[r] < Len(emails[r])
       THEN LET lr1 == IF LastRunning(last_run)
                       THEN [last_run EXCEPT
                               !.phase = Processing(idx[r] + 1, Len(emails[r])),
                               !.stats = stats[r]]
                       ELSE last_run
            IN  IF shutdown_requested
                THEN /\ last_run' = MarkInterrupted(lr1)
                     /\ observed' = [observed EXCEPT ![r] = "loop"]
                     /\ pc' = [pc EXCEPT ![r] = "finish"]
                ELSE /\ last_run' = lr1
                     /\ pc' = [pc EXCEPT ![r] = "process"]
                     /\ UNCHANGED observed
       ELSE /\ pc' = [pc EXCEPT ![r] = "finish"]
            /\ UNCHANGED <<last_run, observed>>
    /\ UNCHANGED <<is_running, shutdown_requested, scheduler, mainState,
                   origin, stats, emails, idx>>

\* main.py:295 with an element of the pair: process_single_email reads
\* email.subject before its try (main.py:120), the handler of main.py:329-331
\* reads email.message_id, the finally of 337-340 runs and the error reaches
\* `except Exception` of main.py:348-350.
RunOnceProcess(r) ==
    /\ UNCHANGED <<textVars, ingestVars, apiVars, mdVars>>
    /\ UNCHANGED <<docVars, pubVars>>
    /\ Alive /\ pc[r] = "process"
    /\ ~IsRawEmail(emails[r][idx[r] + 1])
    /\ last_run' = IF LastRunning(last_run)
                   THEN [last_run EXCEPT !.stats = stats[r]] ELSE last_run
    /\ stats' = [stats EXCEPT ![r].errors = @ + 1]
    /\ pc' = [pc EXCEPT ![r] = "finish"]
    /\ UNCHANGED <<is_running, shutdown_requested, scheduler, mainState,
                   origin, emails, idx, observed>>

\* main.py:358-364  the final phase
FinalPhase(shutdown, phase, errors) ==
    IF shutdown /\ phase # Phase("interrupted") THEN Phase("interrupted")
    ELSE IF errors > 0 THEN Phase("completed_errors")
    ELSE Phase("completed")

\* main.py:352-364
RunOnceFinish(r) ==
    /\ UNCHANGED <<textVars, ingestVars, apiVars, mdVars>>
    /\ UNCHANGED <<docVars, pubVars>>
    /\ Alive /\ pc[r] = "finish"
    /\ last_run' = IF last_run.exists
                   THEN [last_run EXCEPT
                           !.running = FALSE,
                           !.finished_at = TRUE,
                           !.stats = stats[r],
                           !.phase = FinalPhase(shutdown_requested,
                                                last_run.phase, stats[r].errors)]
                   ELSE last_run
    /\ pc' = [pc EXCEPT ![r] = "release"]
    /\ UNCHANGED <<is_running, shutdown_requested, scheduler, mainState,
                   origin, stats, emails, idx, observed>>

\* main.py:377-379  return stats; finally: self._is_running = False
RunOnceRelease(r) ==
    /\ UNCHANGED <<textVars, ingestVars, apiVars, mdVars>>
    /\ UNCHANGED <<docVars, pubVars>>
    /\ Alive /\ pc[r] = "release"
    /\ is_running' = FALSE
    /\ pc' = [pc EXCEPT ![r] = "idle"]
    /\ origin' = [origin EXCEPT ![r] = "none"]
    /\ stats' = [stats EXCEPT ![r] = ZeroStats]
    /\ emails' = [emails EXCEPT ![r] = << >>]
    /\ idx' = [idx EXCEPT ![r] = 0]
    /\ observed' = [observed EXCEPT ![r] = "none"]
    /\ UNCHANGED <<shutdown_requested, last_run, scheduler, mainState>>

\* --------------------------------------------------- triggers of run_once
Active(q) == pc[q] # "idle"

\* main.py:417-424  the interval job, max_instances=1
SchedulerFire(r) ==
    /\ UNCHANGED <<textVars, ingestVars, apiVars, mdVars>>
    /\ UNCHANGED <<docVars, pubVars>>
    /\ Alive /\ scheduler = "running"
    /\ pc[r] = "idle"
    /\ \A q \in Runs : ~(Active(q) /\ origin[q] = "sched")
    /\ pc' = [pc EXCEPT ![r] = "guard"]
    /\ origin' = [origin EXCEPT ![r] = "sched"]
    /\ UNCHANGED <<is_running, shutdown_requested, last_run, scheduler,
                   mainState, stats, emails, idx, observed>>

\* api.py:495-496  _is_running is set but _last_run says the run has finished
Inconsistent(running, lr) ==
    running /\ lr.exists /\ ~lr.running /\ lr.finished_at

\* api.py:482-552  POST /api/tasks/run
RunTask ==
    /\ UNCHANGED <<textVars, ingestVars, apiVars, mdVars>>
    /\ UNCHANGED <<docVars, pubVars>>
    /\ Alive
    /\ IF is_running /\ ~Inconsistent(is_running, last_run)
       THEN UNCHANGED <<is_running, pc, origin>>
       ELSE \E r \in Runs :
            /\ pc[r] = "idle"
            /\ is_running' = FALSE
            /\ pc' = [pc EXCEPT ![r] = "guard"]
            /\ origin' = [origin EXCEPT ![r] = "api"]
    /\ UNCHANGED <<shutdown_requested, last_run, scheduler, mainState,
                   stats, emails, idx, observed>>

\* ------------------------------------------------------ scheduler control
\* main.py:448-469
StartScheduler ==
    /\ UNCHANGED <<textVars, ingestVars, apiVars, mdVars>>
    /\ UNCHANGED <<docVars, pubVars>>
    /\ Alive
    /\ scheduler' = IF scheduler = "stopped" THEN "running" ELSE scheduler
    /\ UNCHANGED <<is_running, shutdown_requested, last_run, mainState,
                   pc, origin, stats, emails, idx, observed>>

\* no call of POST /api/tasks/start yet
NoResponse == [before |-> "none", returned |-> FALSE, code |-> 0]

\* the value start_scheduler returns when it finds the scheduler in state s
\* (main.py:455-469; `self.scheduler` is set by run_scheduled before the web
\* server starts, and `scheduler.running` holds for a paused scheduler too)
start_scheduler_returns(s) == TRUE

\* api.py:606-620  POST /api/tasks/start: start_scheduler, then 200 or 400
start_task ==
    /\ UNCHANGED <<textVars, ingestVars, mdVars>>
    /\ UNCHANGED <<docVars, pubVars>>
    /\ Alive
    /\ scheduler' = IF scheduler = "stopped" THEN "running" ELSE scheduler
    /\ start_response' =
          [before |-> scheduler,
           returned |-> start_scheduler_returns(scheduler),
           code |-> IF start_scheduler_returns(scheduler) THEN 200 ELSE 400]
    /\ UNCHANGED <<is_running, shutdown_requested, last_run, mainState,
                   pc, origin, stats, emails, idx, observed>>

\* main.py:471-502
StopScheduler ==
    /\ UNCHANGED <<textVars, ingestVars, apiVars, mdVars>>
    /\ UNCHANGED <<docVars, pubVars>>
    /\ Alive
    /\ IF scheduler = "stopped"
       THEN UNCHANGED <<last_run, scheduler>>
       ELSE /\ last_run' = IF LastRunning(last_run)
                           THEN [last_run EXCEPT !.running = FALSE,
                                                 !.finished_at = TRUE,
                                                 !.phase = Phase("interrupted")]
                           ELSE last_run
            /\ scheduler' = "stopped"
    /\ UNCHANGED <<is_running, shutdown_requested, mainState,
                   pc, origin, stats, emails, idx, observed>>

\* main.py:504-534
PauseScheduler ==
    /\ UNCHANGED <<textVars, ingestVars, apiVars, mdVars>>
    /\ UNCHANGED <<docVars, pubVars>>
    /\ Alive
    /\ IF scheduler = "stopped"
       THEN UNCHANGED scheduler
       ELSE scheduler' = "paused"
    /\ UNCHANGED <<is_running, shutdown_requested, last_run, mainState,
                   pc, origin, stats, emails, idx, observed>>

\* main.py:536-567
ResumeScheduler ==
    /\ UNCHANGED <<textVars, ingestVars, apiVars, mdVars>>
    /\ UNCHANGED <<docVars, pubVars>>
    /\ Alive
    /\ IF scheduler = "stopped"
       THEN UNCHANGED scheduler
       ELSE scheduler' = "running"
    /\ UNCHANGED <<is_running, shutdown_requested, last_run, mainState,
                   pc, origin, stats, emails, idx, observed>>

\* api.py:752-786  POST /api/tasks/reset
ResetTaskState ==
    /\ UNCHANGED <<textVars, ingestVars, apiVars, mdVars>>
    /\ UNCHANGED <<docVars, pubVars>>
    /\ Alive
    /\ shutdown_requested' = (shutdown_requested \/ is_running)
    /\ is_running' = FALSE
    /\ last_run' = IF LastRunning(last_run)
                   THEN [last_run EXCEPT !.finished_at = TRUE,
                                         !.running = FALSE,
                                         !.phase = Phase("force_reset")]
                   ELSE last_run
    /\ UNCHANGED <<scheduler, mainState, pc, origin, stats, emails, idx,
                   observed>>

\* main.py:99-108  SIGINT / SIGTERM
SignalHandler ==
    /\ UNCHANGED <<textVars, ingestVars, apiVars, mdVars>>
    /\ UNCHANGED <<docVars, pubVars>>
    /\ Alive
    /\ shutdown_requested' = TRUE
    /\ UNCHANGED <<is_running, last_run, scheduler, mainState, pc, origin,
                   stats, emails, idx, observed>>

\* main.py:437-438  `while not self._shutdown_requested: time.sleep(1)`
MainLoopExit ==
    /\ UNCHANGED <<textVars, ingestVars, apiVars, mdVars>>
    /\ UNCHANGED <<docVars, pubVars>>
    /\ mainState = "polling"
    /\ shutdown_requested
    /\ mainState' = "stopping"
    /\ UNCHANGED <<is_running, shutdown_requested, last_run, scheduler, pc,
                   origin, stats, emails, idx, observed>>

\* main.py:442-446  scheduler.shutdown(wait=True) returns once the job thread
\* has ended; then the ledger is closed and the process ends.
MainFinally ==
    /\ UNCHANGED <<textVars, ingestVars, apiVars, mdVars>>
    /\ UNCHANGED <<docVars, pubVars>>
    /\ mainState = "stopping"
    /\ scheduler = "stopped" \/ \A q \in Runs : ~(Active(q) /\ origin[q] = "sched")
    /\ scheduler' = "stopped"
    /\ mainState' = "exited"
    /\ UNCHANGED <<is_running, shutdown_requested, last_run, pc, origin,
                   stats, emails, idx, observed>>

\* ---------------------------------------------------------- specification
\* ================================================================ publisher
\* Exceptions of a Notion call.  The classes are the ones the code names in
\* its retry predicate and except clauses; an APIResponseError carries the
\* code of the API answer.
ErrorKinds == {"validation_error", "unauthorized", "rate_limited",
               "http_error", "connection", "timeout"}

ExcClass(e) ==
    CASE e \in {"validation_error", "unauthorized", "rate_limited"}
                              -> "APIResponseError"
      [] e = "http_error"     -> "HTTPResponseError"
      [] e = "connection"     -> "ConnectionError"
      [] e = "timeout"        -> "TimeoutError"

\* errors a second attempt cannot cure: the request or the credentials are
\* wrong (validation, authentication)
NonTransient == {"validation_error", "unauthorized"}

\* largest number of consecutive failures of one remote call
MaxFails == 5

\* what the destination does with one call: the first `fails` attempts raise
\* `err`, the next one is answered
CallBehaviours == [err : ErrorKinds, fails : 0..MaxFails]

\* @retry(stop=stop_after_attempt(5), wait=wait_exponential(multiplier=2,
\*        min=2, max=30), retry=retry_if_exception_type(...), reraise=True)
StopAfterAttempt == 5
WaitMultiplier == 2
WaitMin == 2
WaitMax == 30

Min2(a, b) == IF a < b THEN a ELSE b
Max2(a, b) == IF a > b THEN a ELSE b

\* a backoff whose exponent is the attempt number itself: 4, 8, 16, 30
WaitExponentialFromTwo(n) ==
    Max2(WaitMin, Min2(WaitMultiplier * 2 ^ n, WaitMax))

\* tenacity wait_exponential after the n-th failed attempt:
\* max(min, min(multiplier * 2 ** (n - 1), max))
WaitExponential(n) ==
    Max2(WaitMin, Min2(WaitMultiplier * 2 ^ (n - 1), WaitMax))

\* retry_if_exception_type((HTTPResponseError, APIResponseError,
\*                          ConnectionError, TimeoutError))
RetryIfExceptionType(e) ==
    ExcClass(e) \in {"HTTPResponseError", "APIResponseError",
                     "ConnectionError", "TimeoutError"}

\* the retrying loop around one call; n is the number of the attempt
RECURSIVE Attempt(_, _, _)
Attempt(b, n, waits) ==
    IF n > b.fails
    THEN [ok |-> TRUE, err |-> "none", attempts |-> n, waits |-> waits]
    ELSE IF ~RetryIfExceptionType(b.err) \/ n >= StopAfterAttempt
         THEN \* reraise=True: the exception of the last attempt
              [ok |-> FALSE, err |-> b.err, attempts |-> n, waits |-> waits]
         ELSE Attempt(b, n + 1, Append(waits, WaitExponential(n)))

\* _create_page_with_retry / _append_blocks_with_retry
CallWithRetry(b) == Attempt(b, 1, << >>)

NoCall == [op |-> "none", b |-> [err |-> "timeout", fails |-> 0],
           res |-> [ok |-> TRUE, err |-> "none", attempts |-> 0,
                    waits |-> << >>]]

\* ------------------------------------------ _append_blocks_in_chunks
Nil == -1
chunk_size == 100

total_chunks(n) == (n + chunk_size - 1) \div chunk_size

\* the chunk after the one that holds the index
email_content_chunk_next(ei) ==
    IF ei = Nil THEN Nil ELSE (ei \div chunk_size) + 2

email_content_chunk(ei) == IF ei = Nil THEN Nil ELSE (ei \div chunk_size) + 1

\* chunk numbers counted from 0
chunk_num_from_zero(i) == i \div chunk_size

chunk_num(i) == (i \div chunk_size) + 1

\* a slice that always has chunk_size blocks
ChunkLenFull(n, i) == chunk_size

\* len(blocks[i:i + chunk_size])
ChunkLen(n, i) == Min2(chunk_size, n - i)

\* a chunk loop for which every chunk is critical
is_critical_always(c, ei) == TRUE

\* is_critical = (chunk_num == 1) or (email_content_chunk and
\*                                     chunk_num == email_content_chunk)
is_critical(c, ei) ==
    (c = 1) \/ (email_content_chunk(ei) # Nil /\ c = email_content_chunk(ei))

\* one iteration of `for i in range(0, len(blocks), chunk_size)`
AppendChunk ==
    /\ UNCHANGED <<textVars, ingestVars, apiVars, mdVars>>
    /\ apc = "loop"
    /\ offset < nblocks
    /\ \E b \in CallBehaviours :
         LET res == CallWithRetry(b)
             c   == chunk_num(offset)
         IN  /\ lastCall' = [op |-> "append", b |-> b, res |-> res]
             /\ sent' = Append(sent, c)
             /\ requests' = Append(requests,
                                   [first |-> offset,
                                    len |-> ChunkLen(nblocks, offset)])
             /\ IF res.ok
                THEN /\ offset' = offset + chunk_size
                     /\ UNCHANGED <<apc, failed_chunks, last_exception>>
                ELSE /\ failed_chunks' = Append(failed_chunks, c)
                     /\ last_exception' = res.err
                     /\ IF is_critical(c, email_idx)
                        THEN /\ apc' = "raised"           \* raise
                             /\ UNCHANGED offset
                        ELSE /\ offset' = offset + chunk_size  \* continue
                             /\ UNCHANGED apc
    /\ UNCHANGED <<nblocks, email_idx>>
    /\ UNCHANGED <<orchVars, docVars>>

\* after the loop: `if len(failed_chunks) == total_chunks and last_exception:
\* raise last_exception`, else the function returns
AppendFinish ==
    /\ UNCHANGED <<textVars, ingestVars, apiVars, mdVars>>
    /\ apc = "loop"
    /\ offset >= nblocks
    /\ IF Len(failed_chunks) = total_chunks(nblocks) /\ last_exception # "none"
       THEN apc' = "raised"
       ELSE apc' = "returned"
    /\ UNCHANGED <<nblocks, email_idx, offset, failed_chunks, last_exception,
                   sent, requests, lastCall>>
    /\ UNCHANGED <<orchVars, docVars>>

\* ------------------------------------------------------ the Gist
MIN_VALUE_SCORE == 30

\* largest number of key insights the model returns for one email
MaxInsights == 200

Scores == {20, MIN_VALUE_SCORE, 85}
InsightCounts == {0, 3, MaxInsights \div 2, MaxInsights}
LinkCounts == {0, 12}

\* largest number of blocks _parse_markdown_to_blocks yields for one email
MaxRawBlocks == 120

RawBlockCounts == {1, MaxRawBlocks}

NoGist == [spam |-> FALSE, score |-> 0, fallback |-> FALSE, summary |-> FALSE,
           insights |-> 0, links |-> 0, raw |-> FALSE, raw_blocks |-> 0,
           sender |-> FALSE, original_id |-> FALSE,
           notion_page_id |-> FALSE, local_file_path |-> FALSE]

\* a Gist answered by the language model, with the metadata that
\* process_single_email fills in (raw_markdown, original_id); raw_blocks is
\* the number of blocks _parse_markdown_to_blocks yields for raw_markdown
LLMGists ==
    { [NoGist EXCEPT !.spam = sp, !.score = sc, !.summary = TRUE,
                     !.insights = k, !.links = l, !.raw = TRUE,
                     !.raw_blocks = n, !.sender = TRUE,
                     !.original_id = TRUE] :
        sp \in BOOLEAN, sc \in Scores, k \in InsightCounts, l \in LinkCounts,
        n \in RawBlockCounts }

\* the Gist built without the model when extract_gist returned None
FallbackGist ==
    [NoGist EXCEPT !.score = 30, !.fallback = TRUE, !.summary = TRUE,
                   !.insights = 1, !.raw = TRUE, !.raw_blocks = 1,
                   !.sender = TRUE, !.original_id = TRUE]

\* a gist that counts as valuable whatever its score
is_valuable_any(g, min_score) == ~g.spam

\* Gist.is_valuable; callers pass min_score = MIN_VALUE_SCORE, the method of
\* this revision fixes the threshold at 30, the default of MIN_VALUE_SCORE
is_valuable(g, min_score) == ~g.spam /\ g.score >= min_score

\* Gist.is_fallback: the gist is the one built by the fallback branch
is_fallback(g) == g.fallback

\* _build_content_blocks: the top-level blocks of the page, in order.  The
\* texts stand for the headings of the source: "Summary" for the summary
\* heading, "Email original (expand)" for the title of the toggle.
Block(type, content) == [type |-> type, content |-> content, children |-> 0]

\* toggle_children: the sender paragraph and a divider, then content_blocks
ToggleChildren(g) == (IF g.sender THEN 2 ELSE 0) + g.raw_blocks

BuildContentBlocks(g) ==
    LET nl == Min2(g.links, 10)
    IN  (IF g.summary
         THEN << Block("heading_2", "Summary"), Block("paragraph", "summary"),
                 Block("divider", "") >>
         ELSE << >>)
        \o (IF g.insights > 0
            THEN << Block("heading_2", "Key insights") >>
                 \o [k \in 1..g.insights |-> Block("bulleted_list_item", "insight")]
                 \o << Block("divider", "") >>
            ELSE << >>)
        \o (IF g.links > 0
            THEN << Block("heading_2", "Links") >>
                 \o [k \in 1..nl |-> Block("bulleted_list_item", "link")]
                 \o << Block("divider", "") >>
            ELSE << >>)
        \o (IF g.raw
            THEN << [Block("toggle", "Email original (expand)")
                       EXCEPT !.children = ToggleChildren(g)] >>
            ELSE << >>)
        \o << Block("divider", "") >>
        \o (IF g.original_id THEN << Block("paragraph", "Message ID") >>
                             ELSE << >>)

\* _find_email_content_start_index: 0-based index of the first heading_2 whose
\* text is exactly the sentinel "Email original", None when there is none
FindEmailContentStartIndex(blocks) ==
    LET hits == { i \in 1..Len(blocks) : /\ blocks[i].type = "heading_2"
                                         /\ blocks[i].content = "Email original" }
    IN  IF hits = {} THEN Nil
        ELSE (CHOOSE i \in hits : \A j \in hits : i <= j) - 1

\* ------------------------------------------- process_single_email and push
Bump(st, f) == [st EXCEPT ![f] = @ + 1]

\* the except clauses of NotionPublisher.push: APIResponseError,
\* HTTPResponseError, ValueError, (KeyError, TypeError, AttributeError),
\* ConnectionError -> return None
PushCatches(e) ==
    ExcClass(e) \in {"APIResponseError", "HTTPResponseError", "ConnectionError"}

\* the except clause around notion_publisher.push in _publish_gist
PublishGistCatches(e) ==
    ExcClass(e) \in {"APIResponseError", "HTTPResponseError"}

\* an exception e leaves the try block of push
PushExcept(e) ==
    IF PushCatches(e)
    THEN \* push returns None; _publish_gist goes on with the local publisher
         /\ pushRet' = "None"
         /\ dpc' = "local"
         /\ UNCHANGED <<errlog, ledgerCalls>>
    ELSE IF PublishGistCatches(e)
    THEN \* _publish_gist logs the error and goes on
         /\ pushRet' = "raised"
         /\ dpc' = "local"
         /\ UNCHANGED <<errlog, ledgerCalls>>
    ELSE \* process_single_email: except Exception -> record_error, return None
         /\ pushRet' = "raised"
         /\ errlog' = errlog \cup {doc}
         /\ ledgerCalls' = Append(ledgerCalls, "record_error")
         /\ dpc' = "skipped"

\* Step 1: cleaner.clean and the length test
Clean ==
    /\ UNCHANGED <<textVars, ingestVars, apiVars, mdVars>>
    /\ dpc = "clean"
    /\ \E c \in {"ok", "short"} :
         dpc' = IF c = "short" THEN "skipped" ELSE "extract"
    /\ UNCHANGED <<doc, gist, pushRet, localTried, processed, errlog,
                   gmail_marked, dstats, ledgerCalls, publishers>>
    /\ UNCHANGED <<orchVars, pubVars>>

\* Step 2: extract_gist_with_fallback and the metadata
Extract ==
    /\ UNCHANGED <<textVars, ingestVars, apiVars, mdVars>>
    /\ dpc = "extract"
    /\ \E g \in LLMGists \cup {FallbackGist} : gist' = g
    /\ dpc' = "decide"
    /\ UNCHANGED <<doc, pushRet, localTried, processed, errlog, gmail_marked,
                   dstats, ledgerCalls, publishers>>
    /\ UNCHANGED <<orchVars, pubVars>>

\* Step 3: publish if valuable and not the fallback gist
Decide ==
    /\ UNCHANGED <<textVars, ingestVars, apiVars, mdVars>>
    /\ dpc = "decide"
    /\ dpc' = IF is_fallback(gist) THEN "return"
              ELSE IF is_valuable(gist, MIN_VALUE_SCORE) THEN "notion"
              ELSE "return"
    /\ UNCHANGED <<doc, gist, pushRet, localTried, processed, errlog,
                   gmail_marked, dstats, ledgerCalls, publishers>>
    /\ UNCHANGED <<orchVars, pubVars>>

\* _publish_gist, Notion part, and push up to the creation of the page
PublishNotion ==
    /\ UNCHANGED <<textVars, ingestVars, apiVars, mdVars>>
    /\ dpc = "notion"
    /\ IF ~publishers.notion
       THEN /\ dpc' = "local"
            /\ UNCHANGED <<pushRet, errlog, ledgerCalls, pubVars>>
       ELSE IF gist.spam \/ ~is_valuable(gist, MIN_VALUE_SCORE)
       THEN /\ pushRet' = "None"
            /\ dpc' = "local"
            /\ UNCHANGED <<errlog, ledgerCalls, pubVars>>
       ELSE \E b \in CallBehaviours :
              LET res    == CallWithRetry(b)
                  blocks == BuildContentBlocks(gist)
              IN  /\ lastCall' = [op |-> "create", b |-> b, res |-> res]
                  /\ IF res.ok
                     THEN /\ nblocks' = Len(blocks)
                          /\ email_idx' = FindEmailContentStartIndex(blocks)
                          /\ apc' = "loop"
                          /\ offset' = 0
                          /\ failed_chunks' = << >>
                          /\ last_exception' = "none"
                          /\ sent' = << >>
                          /\ requests' = << >>
                          /\ dpc' = "append"
                          /\ UNCHANGED <<pushRet, errlog, ledgerCalls>>
                     ELSE /\ PushExcept(res.err)
                          /\ UNCHANGED <<apc, nblocks, email_idx, offset,
                                         failed_chunks, last_exception, sent,
                                         requests>>
    /\ UNCHANGED <<doc, gist, localTried, processed, gmail_marked, dstats,
                   publishers>>
    /\ UNCHANGED orchVars

\* push after _append_blocks_in_chunks returned or raised
PushAfterAppend ==
    /\ UNCHANGED <<textVars, ingestVars, apiVars, mdVars>>
    /\ dpc = "append"
    /\ apc \in {"returned", "raised"}
    /\ IF apc = "returned"
       THEN /\ pushRet' = "page"
            /\ gist' = [gist EXCEPT !.notion_page_id = TRUE]
            /\ dpc' = "local"
            /\ UNCHANGED <<errlog, ledgerCalls>>
       ELSE /\ PushExcept(last_exception)
            /\ UNCHANGED gist
    /\ apc' = "idle"
    /\ UNCHANGED <<nblocks, email_idx, offset, failed_chunks, last_exception,
                   sent, requests, lastCall>>
    /\ UNCHANGED <<doc, localTried, processed, gmail_marked, dstats,
                   publishers>>
    /\ UNCHANGED orchVars

\* _publish_gist, local part; LocalPublisher.push answers the path or None
PublishLocal ==
    /\ UNCHANGED <<textVars, ingestVars, apiVars, mdVars>>
    /\ dpc = "local"
    /\ IF ~publishers.local
       THEN UNCHANGED <<gist, localTried>>
       ELSE /\ localTried' = TRUE
            /\ \E saved \in BOOLEAN :
                 gist' = [gist EXCEPT !.local_file_path =
                            saved /\ ~gist.spam
                                  /\ is_valuable(gist, MIN_VALUE_SCORE)]
    /\ dpc' = "return"
    /\ UNCHANGED <<doc, pushRet, processed, errlog, gmail_marked, dstats,
                   ledgerCalls, publishers>>
    /\ UNCHANGED <<orchVars, pubVars>>

\* --------------------------------------- the loop body around the document
\* `if gist:` - emails_processed, LocalStore.mark_processed
MarkProcessed ==
    /\ UNCHANGED <<textVars, ingestVars, apiVars, mdVars>>
    /\ dpc = "return"
    /\ dstats' = Bump(dstats, "emails_processed")
    /\ processed' = processed \cup {doc}
    /\ ledgerCalls' = Append(ledgerCalls, "mark_processed")
    /\ dpc' = "gmail"
    /\ UNCHANGED <<doc, gist, pushRet, localTried, errlog, gmail_marked,
                   publishers>>
    /\ UNCHANGED <<orchVars, pubVars>>

\* the counters of a processed document
CountGist(st, g) ==
    IF ~is_valuable(g, MIN_VALUE_SCORE) THEN st
    ELSE LET a == Bump(st, "gists_created")
             b == IF g.notion_page_id THEN Bump(a, "notion_published") ELSE a
         IN  IF g.local_file_path THEN Bump(b, "local_saved") ELSE b

\* fetcher.mark_as_processed and the counters.  "flagged": the labels are
\* removed; "swallowed": mailbox.flag failed with ImapToolsError, which
\* mark_as_processed logs; "retry_error": the three attempts failed and
\* tenacity raises RetryError, which only `except Exception` catches
MarkGmail ==
    /\ UNCHANGED <<textVars, ingestVars, apiVars, mdVars>>
    /\ dpc = "gmail"
    /\ \E o \in {"flagged", "swallowed", "retry_error"} :
         IF o = "retry_error"
         THEN /\ errlog' = errlog \cup {doc}
              /\ ledgerCalls' = Append(ledgerCalls, "record_error")
              /\ dstats' = Bump(Bump(dstats, "emails_skipped"), "errors")
              /\ UNCHANGED gmail_marked
         ELSE /\ gmail_marked' = IF o = "flagged" THEN gmail_marked \cup {doc}
                                                  ELSE gmail_marked
              /\ dstats' = CountGist(dstats, gist)
              /\ UNCHANGED <<errlog, ledgerCalls>>
    /\ dpc' = "done"
    /\ UNCHANGED <<doc, gist, pushRet, localTried, processed, publishers>>
    /\ UNCHANGED <<orchVars, pubVars>>

\* `else:` - process_single_email returned None
Skipped ==
    /\ UNCHANGED <<textVars, ingestVars, apiVars, mdVars>>
    /\ dpc = "skipped"
    /\ dstats' = Bump(dstats, "emails_skipped")
    /\ dpc' = "done"
    /\ UNCHANGED <<doc, gist, pushRet, localTried, processed, errlog,
                   gmail_marked, ledgerCalls, publishers>>
    /\ UNCHANGED <<orchVars, pubVars>>

\* ============================================== _parse_markdown_to_blocks
\* The markdown text is given already cut at its markers: a text is a
\* sequence of units (the pieces between blank lines), a unit is a sequence
\* of lines and a line a sequence of tokens.  A token is a stretch of
\* content characters: plain text, the inside of **bold**, of *italic* or
\* of the text of a [link](url).  A rich_text run is a slice of one token.
NOTION_RICH_TEXT_MAX == 2000

\* longest stretch of content characters in one token
MaxTextLen == 4500

TokenTypes == {"plain", "bold", "italic", "link"}
TokenLens == {1, NOTION_RICH_TEXT_MAX, NOTION_RICH_TEXT_MAX + 1, MaxTextLen}
Tokens == [t : TokenTypes, len : TokenLens]

UnitKinds == {"paragraph", "heading", "bulleted_list_item",
              "numbered_list_item", "code"}

\* lines of one or two tokens; in a list unit `marked` tells whether the
\* line starts with the list marker
OneTokenLines == { [marked |-> m, tokens |-> <<a>>] :
                     m \in BOOLEAN, a \in Tokens }
TwoTokenLines == { [marked |-> TRUE, tokens |-> <<a, b>>] :
                     a \in Tokens, b \in Tokens }
MarkedLines == { ln \in OneTokenLines \cup TwoTokenLines : ln.marked }

IsList(kind) == kind \in {"bulleted_list_item", "numbered_list_item"}

Units ==
    { [kind |-> k, lines |-> <<ln>>] :
        k \in {"paragraph", "heading", "bulleted_list_item",
               "numbered_list_item"}, ln \in MarkedLines }
    \cup { [kind |-> k, lines |-> <<a, b>>] :
             k \in {"bulleted_list_item", "numbered_list_item"},
             a \in { ln \in OneTokenLines : ln.marked }, b \in OneTokenLines }
    \cup { [kind |-> "code",
            lines |-> << [marked |-> TRUE,
                          tokens |-> << [t |-> "plain", len |-> n] >>] >>] :
             n \in TokenLens }

PlainUnits ==
    { u \in Units : /\ u.kind \in {"paragraph", "heading"}
                    /\ Len(u.lines[1].tokens) = 1
                    /\ u.lines[1].tokens[1].t = "plain" }

Texts == { <<u>> : u \in Units }
         \cup { <<u, v>> : u \in PlainUnits, v \in PlainUnits }

\* a run: `len` characters of token `tok` of line `line`, from offset `from`
Run(line, tok, from, len, ann) ==
    [line |-> line, tok |-> tok, from |-> from, len |-> len, ann |-> ann]

\* _truncate_for_notion: text[:max_len]
TruncateForNotion(run) ==
    [run EXCEPT !.len = Min2(@, NOTION_RICH_TEXT_MAX)]

\* _parse_bold_italic and the link branch of _parse_markdown_inline: one run
\* for each stretch, its content cut by _truncate_for_notion
ParseMarkdownInline(l, tokens) ==
    [k \in 1..Len(tokens) |->
        TruncateForNotion(Run(l, k, 0, tokens[k].len, tokens[k].t))]

TextBlock(type, runs) == [type |-> type, rich_text |-> runs]

RunsLen(runs) ==
    LET RECURSIVE Sum(_)
        Sum(i) == IF i = 0 THEN 0 ELSE runs[i].len + Sum(i - 1)
    IN  Sum(Len(runs))

\* `for i in range(0, item_length, NOTION_RICH_TEXT_MAX)`: one paragraph for
\* each slice of an item that is longer than the limit
RECURSIVE SplitLongItem(_, _)
SplitLongItem(item, i) ==
    IF i >= item.len THEN << >>
    ELSE << TextBlock("paragraph",
                      << [item EXCEPT !.from = item.from + i,
                                      !.len = Min2(NOTION_RICH_TEXT_MAX,
                                                   item.len - i)] >>) >>
         \o SplitLongItem(item, i + NOTION_RICH_TEXT_MAX)

\* the loop over rich_text that fills paragraphs up to the limit
RECURSIVE FillParagraphs(_, _, _, _)
FillParagraphs(items, k, current_chunk, current_length) ==
    IF k > Len(items)
    THEN IF current_chunk # << >>
         THEN << TextBlock("paragraph", current_chunk) >> ELSE << >>
    ELSE LET item == items[k]
         IN  IF current_length + item.len <= NOTION_RICH_TEXT_MAX
             THEN FillParagraphs(items, k + 1, Append(current_chunk, item),
                                 current_length + item.len)
             ELSE (IF current_chunk # << >>
                   THEN << TextBlock("paragraph", current_chunk) >>
                   ELSE << >>)
                  \o (IF item.len <= NOTION_RICH_TEXT_MAX
                      THEN FillParagraphs(items, k + 1, <<item>>, item.len)
                      ELSE SplitLongItem(item, 0)
                           \o FillParagraphs(items, k + 1, << >>, 0))

\* the blocks of the list items of a unit: lines without the marker are
\* left out of list_items
RECURSIVE ListItems(_, _, _)
ListItems(kind, lines, l) ==
    IF l > Len(lines) THEN << >>
    ELSE (IF lines[l].marked
          THEN << TextBlock(kind, ParseMarkdownInline(l, lines[l].tokens)) >>
          ELSE << >>)
         \o ListItems(kind, lines, l + 1)

\* one pass of `for para in paragraphs`
ParseUnit(u) ==
    CASE u.kind = "heading" ->
           << TextBlock("heading", ParseMarkdownInline(1, u.lines[1].tokens)) >>
      [] u.kind = "code" ->
           << TextBlock("code",
                << TruncateForNotion(
                     Run(1, 1, 0, u.lines[1].tokens[1].len, "plain")) >>) >>
      [] IsList(u.kind) -> ListItems(u.kind, u.lines, 1)
      [] OTHER ->
           FillParagraphs(ParseMarkdownInline(1, u.lines[1].tokens), 1,
                          << >>, 0)

\* the blocks of unit i, as they stand in the list `blocks`
Tag(i, bs) ==
    [k \in 1..Len(bs) |->
        [unit |-> i, type |-> bs[k].type, rich_text |-> bs[k].rich_text]]

\* _parse_markdown_to_blocks, one unit at a time
ParseMarkdownToBlocks ==
    /\ tidx < Len(text)
    /\ tblocks' = tblocks \o Tag(tidx + 1, ParseUnit(text[tidx + 1]))
    /\ tidx' = tidx + 1
    /\ UNCHANGED text
    /\ UNCHANGED <<orchVars, docVars, pubVars, ingestVars, apiVars,
                   mdVars>>

\* ============================================ ledger and ingestion (LedgerSpec, FetchSpec)
MessageIds == 1..MaxUids

\* the Gmail labels that _get_matching_labels found for TARGET_LABEL, in the
\* order of folder.list(): the label itself and one of its variants
matching_labels == <<1, 2>>

Labels == {matching_labels[k] : k \in 1..Len(matching_labels)}

\* a table as the number of its rows for each message_id
EmptyTable == [u \in MessageIds |-> 0]

\* the result before any fetch
NoFetch == [limit |-> 0, raw_emails |-> << >>, total_count |-> 0]

\* what the mailbox can hold for one uid: its labels and its \Seen flag
MessageKinds ==
    {[labels |-> L, seen |-> FALSE] : L \in SUBSET Labels}
        \cup {[labels |-> Labels, seen |-> TRUE]}

Inboxes == [MessageIds -> MessageKinds]

\* MAX_EMAILS_PER_RUN: gt=0, le=100
Limits == 1..MaxLimit

\* SELECT 1 FROM processed_emails WHERE message_id = ?
is_processed(message_id) == processed_emails[message_id] > 0

\* INSERT without conflict handling
Insert(table, message_id) == [table EXCEPT ![message_id] = @ + 1]

\* INSERT OR REPLACE that keeps the conflicting row
InsertBesides(table, message_id) == [table EXCEPT ![message_id] = @ + 1]

\* INSERT OR REPLACE under UNIQUE(message_id): the conflicting row goes,
\* the new row comes
InsertOrReplace(table, message_id) == [table EXCEPT ![message_id] = 1]

\* DELETE FROM table WHERE message_id = ?
Delete(table, message_id) == [table EXCEPT ![message_id] = 0]

RECURSIVE RowCount(_, _)
RowCount(table, ids) ==
    IF ids = {} THEN 0
    ELSE LET u == CHOOSE x \in ids : TRUE
         IN table[u] + RowCount(table, ids \ {u})

\* LocalStore.mark_processed
mark_processed(message_id) ==
    /\ processed_emails' = InsertOrReplace(processed_emails, message_id)
    /\ lastOp' = [lastOp EXCEPT ![message_id] =
                    IF @ \in {"mark", "mark_again"} THEN "mark_again"
                    ELSE "mark"]
    /\ UNCHANGED <<processing_errors, inbox, last_fetch>>
    /\ UNCHANGED <<orchVars, docVars, pubVars, textVars, apiVars, mdVars>>

\* LocalStore.unmark_processed
unmark_processed(message_id) ==
    /\ processed_emails' = Delete(processed_emails, message_id)
    /\ processing_errors' = Delete(processing_errors, message_id)
    /\ lastOp' = [lastOp EXCEPT ![message_id] = "unmark"]
    /\ UNCHANGED <<inbox, last_fetch>>
    /\ UNCHANGED <<orchVars, docVars, pubVars, textVars, apiVars, mdVars>>

\* LocalStore.record_error
record_error(message_id) ==
    /\ RowCount(processing_errors, MessageIds) < MaxErrorRows
    /\ processing_errors' = Insert(processing_errors, message_id)
    /\ UNCHANGED <<processed_emails, lastOp, inbox, last_fetch>>
    /\ UNCHANGED <<orchVars, docVars, pubVars, textVars, apiVars, mdVars>>

RECURSIVE Newest(_)
Newest(uids) ==
    IF uids = {} THEN << >>
    ELSE LET m == CHOOSE x \in uids : \A y \in uids : y <= x
         IN <<m>> \o Newest(uids \ {m})

\* mailbox.fetch(AND(seen=False, gmail_label=label), reverse=True)
Unseen(label) ==
    Newest({u \in MessageIds : ~inbox[u].seen /\ label \in inbox[u].labels})

Uids(raw_emails) == {raw_emails[k] : k \in 1..Len(raw_emails)}

\* `msg.uid in processed_ids` of the second pass, never true
AlreadyAddedNever(uid, processed_ids) == FALSE

\* `msg.uid in processed_ids` of the second pass
AlreadyAdded(uid, processed_ids) == uid \in processed_ids

\* the first pass: the uids counted into total_count
all_unprocessed_uids ==
    {u \in MessageIds :
        /\ \E k \in 1..Len(matching_labels) :
              \E j \in 1..Len(Unseen(matching_labels[k])) :
                 Unseen(matching_labels[k])[j] = u
        /\ ~is_processed(u)}

\* the inner loop of the second pass over the messages of one label;
\* unconvertible: the messages _convert_to_raw_email answers None for
RECURSIVE FetchMessages(_, _, _, _, _)
FetchMessages(messages, k, raw_emails, limit, unconvertible) ==
    IF k > Len(messages) THEN raw_emails
    ELSE IF AlreadyAdded(messages[k], Uids(raw_emails))
         THEN FetchMessages(messages, k + 1, raw_emails, limit, unconvertible)
    ELSE IF is_processed(messages[k])
         THEN FetchMessages(messages, k + 1, raw_emails, limit, unconvertible)
    ELSE IF messages[k] \in unconvertible
         THEN FetchMessages(messages, k + 1, raw_emails, limit, unconvertible)
    ELSE IF Len(raw_emails) + 1 >= limit
         THEN Append(raw_emails, messages[k])
    ELSE FetchMessages(messages, k + 1, Append(raw_emails, messages[k]),
                       limit, unconvertible)

\* the outer loop of the second pass over matching_labels
RECURSIVE FetchLabels(_, _, _, _)
FetchLabels(k, raw_emails, limit, unconvertible) ==
    IF k > Len(matching_labels) THEN raw_emails
    ELSE LET found == FetchMessages(Unseen(matching_labels[k]), 1,
                                    raw_emails, limit, unconvertible)
         IN IF Len(found) >= limit THEN found
            ELSE FetchLabels(k + 1, found, limit, unconvertible)

\* EmailFetcher.fetch_unprocessed
fetch_unprocessed(limit) ==
    /\ \E unconvertible \in {{}} \cup {{u} : u \in MessageIds} :
          last_fetch' = [limit |-> limit,
                      raw_emails |-> FetchLabels(1, << >>, limit, unconvertible),
                      total_count |-> Cardinality(all_unprocessed_uids)]
    /\ UNCHANGED <<processed_emails, processing_errors, lastOp, inbox>>
    /\ UNCHANGED <<orchVars, docVars, pubVars, textVars, apiVars, mdVars>>


\* ================================= _parse_markdown_to_blocks on characters
\* The content is a string over a few characters.  FENCE and "1." stand for
\* the three backquotes of a code fence and for a number with its dot: the
\* code tests them as wholes, so each is one character of the model.
NL == "\n"

FENCE == "fence"

MdChars == {"#", FENCE, "-", "*", " ", "1.", "a", NL}

Whitespace == {" ", NL}

\* str.split(sep): the pieces between the occurrences of sep, left to right
Split(s, sep) ==
    LET RECURSIVE Go(_, _, _)
        Go(i, cur, acc) ==
            IF i > Len(s) THEN Append(acc, cur)
            ELSE IF /\ i + Len(sep) - 1 <= Len(s)
                    /\ SubSeq(s, i, i + Len(sep) - 1) = sep
                 THEN Go(i + Len(sep), << >>, Append(acc, cur))
                 ELSE Go(i + 1, Append(cur, s[i]), acc)
    IN  Go(1, << >>, << >>)

\* sep.join(parts)
RECURSIVE Join(_, _)
Join(parts, sep) ==
    IF parts = << >> THEN << >>
    ELSE IF Len(parts) = 1 THEN parts[1]
    ELSE parts[1] \o sep \o Join(Tail(parts), sep)

\* str.lstrip(chars)
RECURSIVE Lstrip(_, _)
Lstrip(s, chars) ==
    IF s # << >> /\ Head(s) \in chars THEN Lstrip(Tail(s), chars) ELSE s

\* str.rstrip(chars)
RECURSIVE Rstrip(_, _)
Rstrip(s, chars) ==
    IF s # << >> /\ s[Len(s)] \in chars
    THEN Rstrip(SubSeq(s, 1, Len(s) - 1), chars) ELSE s

\* str.strip()
Strip(s) == Rstrip(Lstrip(s, Whitespace), Whitespace)

\* str.startswith(prefix)
StartsWith(s, prefix) ==
    Len(s) >= Len(prefix) /\ SubSeq(s, 1, Len(prefix)) = prefix

\* re.match(r'^[\s|:\-]+$', stripped) and len(stripped) > 3
IsTableSeparator(line) ==
    LET stripped == Strip(line)
    IN  /\ \A i \in 1..Len(stripped) : stripped[i] \in {" ", "-"}
        /\ Len(stripped) > 3

\* the cleaning of the lines before the split into paragraphs
CleanContent(s) ==
    LET Keep(line) == ~IsTableSeparator(line)
    IN  Join(SelectSeq(Split(s, <<NL>>), Keep), <<NL>>)

\* `if not content: return []`, else content.split('\n\n') after cleaning
Paragraphs(s) ==
    IF s = << >> THEN << >> ELSE Split(CleanContent(s), <<NL, NL>>)

\* s.strip().startswith('- ') only
StartsWithBulletDashOnly(s) == StartsWith(Strip(s), <<"-", " ">>)

\* s.strip().startswith('- ') or s.strip().startswith('* ')
StartsWithBullet(s) ==
    \/ StartsWith(Strip(s), <<"-", " ">>)
    \/ StartsWith(Strip(s), <<"*", " ">>)

\* re.match(r'^\d+\.\s', s.strip())
StartsWithNumber(s) ==
    LET t == Strip(s)
    IN  Len(t) >= 2 /\ t[1] = "1." /\ t[2] \in Whitespace

MdBlock(type, rich_text) == [type |-> type, rich_text |-> rich_text]

\* the heading branch; the block type is heading_{min(level, 3)}
HeadingBlocks(para) ==
    LET stripped == Lstrip(para, {"#"})
        level == Len(para) - Len(stripped)
        heading_text == Strip(stripped)
    IN  IF heading_text # << >>
        THEN << MdBlock(IF level = 1 THEN "heading_1"
                        ELSE IF level = 2 THEN "heading_2" ELSE "heading_3",
                        heading_text) >>
        ELSE << >>

\* the code branch
CodeBlocks(para) ==
    LET lines_in_para == Split(para, <<NL>>)
        n == Len(lines_in_para)
    IN  IF n > 1
        THEN << MdBlock("code",
                  Join(IF Strip(lines_in_para[n]) = <<FENCE>>
                       THEN SubSeq(lines_in_para, 2, n - 1)
                       ELSE SubSeq(lines_in_para, 2, n), <<NL>>)) >>
        ELSE << >>

\* the bullet branch: list_items, then one block for each item with a text
RECURSIVE BulletItems(_)
BulletItems(ls) ==
    IF ls = << >> THEN << >>
    ELSE LET item == Strip(Head(ls))
             item_text == Strip(Lstrip(item, {"-", "*", " "}))
         IN  (IF StartsWithBullet(Head(ls)) /\ item_text # << >>
              THEN << MdBlock("bulleted_list_item", item_text) >>
              ELSE << >>)
             \o BulletItems(Tail(ls))

\* the numbered branch; item_text is re.sub(r'^\d+\.\s+', '', item)
RECURSIVE NumberedItems(_)
NumberedItems(ls) ==
    IF ls = << >> THEN << >>
    ELSE LET item == Strip(Head(ls))
             item_text == Lstrip(Tail(item), Whitespace)
         IN  (IF StartsWithNumber(Head(ls)) /\ item_text # << >>
              THEN << MdBlock("numbered_list_item", item_text) >>
              ELSE << >>)
             \o NumberedItems(Tail(ls))

\* one pass of `for para in paragraphs`; short as the contents are, the
\* paragraph branch makes one block of the rich_text
ParagraphBlocks(p) ==
    LET para == Strip(p)
    IN  IF para = << >> THEN << >>
        ELSE IF StartsWith(para, <<"#">>) THEN HeadingBlocks(para)
        ELSE IF StartsWith(para, <<FENCE>>) THEN CodeBlocks(para)
        ELSE IF StartsWithBullet(para)
             THEN BulletItems(Split(para, <<NL>>))
        ELSE IF StartsWithNumber(para)
             THEN NumberedItems(Split(para, <<NL>>))
        ELSE << MdBlock("paragraph", para) >>

\* the blocks of paragraph i, as they stand in the list `blocks`
TagPara(i, bs) ==
    [k \in 1..Len(bs) |->
        [para |-> i, type |-> bs[k].type, rich_text |-> bs[k].rich_text]]

\* _parse_markdown_to_blocks, one paragraph at a time
ParseParagraph ==
    /\ para_idx < Len(Paragraphs(md_content))
    /\ md_blocks' = md_blocks \o
          TagPara(para_idx + 1,
                  ParagraphBlocks(Paragraphs(md_content)[para_idx + 1]))
    /\ para_idx' = para_idx + 1
    /\ UNCHANGED md_content
    /\ UNCHANGED <<orchVars, docVars, pubVars, textVars, ingestVars, apiVars>>

\* every content of at most MaxContentLen characters
ShortContents == UNION {[1..n -> MdChars] : n \in 0..MaxContentLen}

\* lines for the longer contents: list lines, a plain line, a heading, a
\* heading of markers only, a fence, a rule
SampleLines ==
    { <<"-", " ", "a">>, <<"*", " ", "a">>, <<"1.", " ", "a">>, <<"a">>,
      <<"#", " ", "a">>, <<"#", "#">>, <<FENCE>>, <<"*", " ", "*", " ", "*">> }

\* two lines in one paragraph, and two paragraphs
LongContents ==
    { a \o sep \o b : a \in SampleLines, b \in SampleLines,
                      sep \in {<<NL>>, <<NL, NL>>} }

\* ============================================================ specifications
OrchIdle ==
    /\ is_running = FALSE
    /\ shutdown_requested = FALSE
    /\ last_run = NoRun
    /\ scheduler = "stopped"
    /\ mainState = "polling"
    /\ pc = [r \in Runs |-> "idle"]
    /\ origin = [r \in Runs |-> "none"]
    /\ stats = [r \in Runs |-> ZeroStats]
    /\ emails = [r \in Runs |-> << >>]
    /\ idx = [r \in Runs |-> 0]
    /\ observed = [r \in Runs |-> "none"]

DocIdle ==
    /\ dpc = "idle"
    /\ doc = 1
    /\ gist = NoGist
    /\ pushRet = "unset"
    /\ localTried = FALSE
    /\ processed = {}
    /\ errlog = {}
    /\ gmail_marked = {}
    /\ dstats = ZeroStats
    /\ ledgerCalls = << >>
    /\ publishers = [notion |-> TRUE, local |-> TRUE]

PubIdle ==
    /\ apc = "idle"
    /\ nblocks = 0
    /\ email_idx = Nil
    /\ offset = 0
    /\ failed_chunks = << >>
    /\ last_exception = "none"
    /\ sent = << >>
    /\ requests = << >>
    /\ lastCall = NoCall

TextIdle ==
    /\ text = << >>
    /\ tidx = 0
    /\ tblocks = << >>

IngestIdle ==
    /\ processed_emails = EmptyTable
    /\ processing_errors = EmptyTable
    /\ lastOp = [u \in MessageIds |-> "none"]
    /\ inbox = [u \in MessageIds |-> [labels |-> {}, seen |-> FALSE]]
    /\ last_fetch = NoFetch

ApiIdle == start_response = NoResponse

MdIdle ==
    /\ md_content = << >>
    /\ para_idx = 0
    /\ md_blocks = << >>

Init ==
    /\ OrchIdle /\ DocIdle /\ PubIdle /\ TextIdle /\ IngestIdle /\ ApiIdle
    /\ MdIdle

RunOnceStep(r) ==
    \/ RunOnceGuard(r)
    \/ RunOnceRejected(r)
    \/ RunOnceSet(r)
    \/ RunOnceConnect(r)
    \/ RunOnceFetch(r)
    \/ RunOnceLoop(r)
    \/ RunOnceProcess(r)
    \/ RunOnceFinish(r)
    \/ RunOnceRelease(r)

Next ==
    \/ \E r \in Runs : SchedulerFire(r)
    \/ \E r \in Runs : RunOnceStep(r)
    \/ RunTask
    \/ StartScheduler
    \/ StopScheduler
    \/ PauseScheduler
    \/ ResumeScheduler
    \/ ResetTaskState
    \/ SignalHandler
    \/ MainLoopExit
    \/ MainFinally

Spec == Init /\ [][Next]_vars

\* the service while no signal is delivered to the process
ServiceNext ==
    \/ \E r \in Runs : SchedulerFire(r)
    \/ \E r \in Runs : RunOnceStep(r)
    \/ RunTask
    \/ StartScheduler
    \/ StopScheduler
    \/ PauseScheduler
    \/ ResumeScheduler
    \/ ResetTaskState
    \/ MainLoopExit
    \/ MainFinally

ServiceSpec == Init /\ [][ServiceNext]_vars

\* every execution of run_once has a thread of its own (the scheduler's
\* worker, the thread of run_in_background): a step it can take is taken
FairSpec == Spec /\ \A r \in Runs : WF_vars(RunOnceStep(r))

\* the scheduler endpoints and the scheduler's own job, the answer of
\* POST /api/tasks/start recorded
ApiNext ==
    \/ start_task
    \/ StopScheduler
    \/ PauseScheduler
    \/ ResumeScheduler
    \/ \E r \in Runs : SchedulerFire(r)
    \/ \E r \in Runs : RunOnceGuard(r)
    \/ \E r \in Runs : RunOnceSet(r)
    \/ \E r \in Runs : RunOnceConnect(r)
    \/ \E r \in Runs : RunOnceFetch(r)
    \/ \E r \in Runs : RunOnceLoop(r)
    \/ \E r \in Runs : RunOnceProcess(r)
    \/ \E r \in Runs : RunOnceFinish(r)
    \/ \E r \in Runs : RunOnceRelease(r)

ApiSpec == Init /\ [][ApiNext]_vars

\* --- DocSpec: the per-document step of the run loop applied to a RawEmail
DocInit ==
    /\ OrchIdle
    /\ PubIdle
    /\ TextIdle
    /\ IngestIdle
    /\ ApiIdle
    /\ MdIdle
    /\ dpc = "clean"
    /\ doc \in Mailbox
    /\ gist = NoGist
    /\ pushRet = "unset"
    /\ localTried = FALSE
    /\ processed = {}
    /\ errlog = {}
    /\ gmail_marked = {}
    /\ dstats = ZeroStats
    /\ ledgerCalls = << >>
    /\ publishers \in [notion : BOOLEAN, local : BOOLEAN]

DocNext ==
    \/ Clean
    \/ Extract
    \/ Decide
    \/ PublishNotion
    \/ AppendChunk
    \/ AppendFinish
    \/ PushAfterAppend
    \/ PublishLocal
    \/ MarkProcessed
    \/ MarkGmail
    \/ Skipped

DocSpec == DocInit /\ [][DocNext]_vars

\* --- PubSpec: _append_blocks_in_chunks applied to a list of blocks
\* largest number of blocks handed to _append_blocks_in_chunks
MaxBlocks == 350

BlockCounts == {0, 1, chunk_size, chunk_size + 1, MaxBlocks}

IndexSamples == { k * chunk_size + d : k \in 0..3, d \in {0, chunk_size - 1} }

PubInit ==
    /\ OrchIdle
    /\ DocIdle
    /\ TextIdle
    /\ IngestIdle
    /\ ApiIdle
    /\ MdIdle
    /\ apc = "loop"
    /\ nblocks \in BlockCounts
    /\ email_idx \in {Nil} \cup { i \in IndexSamples : i < nblocks }
    /\ offset = 0
    /\ failed_chunks = << >>
    /\ last_exception = "none"
    /\ sent = << >>
    /\ requests = << >>
    /\ lastCall = NoCall

PubNext ==
    \/ AppendChunk
    \/ AppendFinish

PubSpec == PubInit /\ [][PubNext]_vars

\* --- PushSpec: NotionPublisher.push applied to a Gist
PushInit ==
    /\ OrchIdle
    /\ PubIdle
    /\ TextIdle
    /\ IngestIdle
    /\ ApiIdle
    /\ MdIdle
    /\ dpc = "notion"
    /\ doc \in Mailbox
    /\ gist \in LLMGists \cup {FallbackGist}
    /\ pushRet = "unset"
    /\ localTried = FALSE
    /\ processed = {}
    /\ errlog = {}
    /\ gmail_marked = {}
    /\ dstats = ZeroStats
    /\ ledgerCalls = << >>
    /\ publishers = [notion |-> TRUE, local |-> FALSE]

PushNext ==
    \/ PublishNotion
    \/ AppendChunk
    \/ AppendFinish
    \/ PushAfterAppend

PushSpec == PushInit /\ [][PushNext]_vars

\* push runs in the one thread of its run and nothing else can hold it up:
\* a step of push that is possible is taken
PushFairSpec == PushSpec /\ WF_vars(PushNext)

\* --- TextSpec: _parse_markdown_to_blocks applied to a markdown text
LedgerInit ==
    /\ OrchIdle
    /\ DocIdle
    /\ PubIdle
    /\ TextIdle
    /\ IngestIdle
    /\ ApiIdle
    /\ MdIdle

LedgerNext ==
    \/ \E u \in MessageIds : mark_processed(u)
    \/ \E u \in MessageIds : unmark_processed(u)
    \/ \E u \in MessageIds : record_error(u)

LedgerSpec == LedgerInit /\ [][LedgerNext]_vars

\* the ledgers mark_processed and unmark_processed lead to: at most one row
\* for each message id
Ledgers == [MessageIds -> {0, 1}]

FetchInit ==
    /\ OrchIdle
    /\ DocIdle
    /\ PubIdle
    /\ TextIdle
    /\ processed_emails \in Ledgers
    /\ processing_errors = EmptyTable
    /\ lastOp = [u \in MessageIds |->
                    IF is_processed(u) THEN "mark" ELSE "none"]
    /\ inbox \in Inboxes
    /\ last_fetch = NoFetch
    /\ ApiIdle
    /\ MdIdle

FetchNext == \E limit \in Limits : fetch_unprocessed(limit)

FetchSpec == FetchInit /\ [][FetchNext]_vars

TextInit ==
    /\ OrchIdle
    /\ DocIdle
    /\ PubIdle
    /\ IngestIdle
    /\ ApiIdle
    /\ MdIdle
    /\ text \in Texts
    /\ tidx = 0
    /\ tblocks = << >>

TextNext == ParseMarkdownToBlocks

TextSpec == TextInit /\ [][TextNext]_vars


MarkdownInit ==
    /\ OrchIdle
    /\ DocIdle
    /\ PubIdle
    /\ TextIdle
    /\ IngestIdle
    /\ ApiIdle
    /\ md_content \in ShortContents \cup SampleLines \cup LongContents
    /\ para_idx = 0
    /\ md_blocks = << >>

MarkdownNext == ParseParagraph

MarkdownSpec == MarkdownInit /\ [][MarkdownNext]_vars

TypeOK ==
    /\ is_running \in BOOLEAN
    /\ shutdown_requested \in BOOLEAN
    /\ scheduler \in {"stopped", "running", "paused"}
    /\ mainState \in {"polling", "stopping", "exited"}
    /\ processed_emails \in [MessageIds -> 0..1]
    /\ processing_errors \in [MessageIds -> 0..MaxErrorRows]
    /\ inbox \in [MessageIds -> MessageKinds]
    /\ start_response.code \in {0, 200, 400}

\* ------------------------------------------------------------------ claims
\* positions inside the body of run_once: mailbox connection, fetch, loop
InBody(r) == pc[r] \in {"connect", "fetch", "loop", "process"}

\* positions of an execution that has passed the guard and set the flag
Executing(r) == pc[r] \in {"connect", "fetch", "loop", "process", "finish", "release"}

\* C1: at any time at most one execution of the run_once body (fetch and
\* per-document loop) is active, whatever the interleaving of run triggers.
C1_SingleFlight ==
    Cardinality({r \in Runs : InBody(r)}) <= 1

\* C2: while a run is still executing, also after control calls made during
\* that run, a further run request is rejected: run_once does not pass its
\* guard and POST /api/tasks/run starts no thread.
C2_FurtherRunRejected ==
    [][ (\E q \in Runs : Executing(q))
          => \A r \in Runs :
               /\ ~(pc[r] = "guard" /\ pc'[r] = "set")
               /\ ~(pc[r] = "idle" /\ pc'[r] = "guard" /\ origin'[r] = "api") ]_vars

\* C8: once shutdown_requested is set no further document is begun, and a run
\* that left the loop on the request ends in phase interrupted.
C8_CooperativeCancel ==
    [][ \A r \in Runs :
          /\ (pc[r] = "loop" /\ pc'[r] = "process") => ~shutdown_requested
          /\ (pc[r] = "finish" /\ pc'[r] = "release" /\ observed[r] = "loop")
                => last_run'.phase = Phase("interrupted") ]_vars

\* C9: every run that is started begins with shutdown_requested cleared.
C9_StartClearsShutdown ==
    [][ \A r \in Runs :
          (pc[r] = "set" /\ pc'[r] = "connect") => ~shutdown_requested' ]_vars

\* C10: a run that ended on an observed shutdown request has the final phase
\* interrupted; a run that ends with no shutdown request never has it.
C10_InterruptedIsFinal ==
    [][ \A r \in Runs :
          (pc[r] = "finish" /\ pc'[r] = "release") =>
             /\ observed[r] # "none" => last_run'.phase = Phase("interrupted")
             /\ ~shutdown_requested => last_run'.phase # Phase("interrupted") ]_vars

\* ------------------------------------------------------------------ DocSpec
\* the Notion publish of the document was aborted: push answered None or let
\* the exception of the failed call through
Aborted == pushRet \in {"None", "raised"}

\* C3: when a critical chunk (chunk 1 or the chunk of the email-content
\* sentinel) has failed all its attempts, _append_blocks_in_chunks raises, no
\* chunk after the failed one is sent, and push returns None.
C3_CriticalChunkAborts ==
    [][ /\ (sent' # sent /\ ~lastCall'.res.ok
              /\ (chunk_num(offset) = 1
                  \/ chunk_num(offset) = email_content_chunk(email_idx)))
           => apc' = "raised"
        /\ apc = "raised" => sent' = sent
        /\ (dpc = "append" /\ apc = "raised" /\ dpc' # dpc)
           => pushRet' = "None" ]_vars

\* C4: a document whose Notion publish was aborted ends with an error record
\* in the ledger and is marked processed neither in the ledger nor in Gmail.
C4_AbortedIsFailed ==
    (dpc = "done" /\ Aborted)
        => /\ doc \in errlog
           /\ doc \notin processed
           /\ doc \notin gmail_marked

\* C5: when one non-critical chunk has failed all its attempts and every
\* other chunk was accepted, the publish is not aborted: the chunks are sent
\* in order up to the last one, push returns the page id, the failed chunks
\* are exactly that chunk, and the document is marked processed in the ledger.
C5_NonCriticalFailureKeepsPublish ==
    \A c \in 1..total_chunks(nblocks) :
        (failed_chunks = <<c>> /\ c # 1 /\ c # email_content_chunk(email_idx))
        => /\ apc # "raised"
           /\ sent = [k \in 1..Len(sent) |-> k]
           /\ Len(sent) >= c
           /\ apc \in {"returned", "idle"} => Len(sent) = total_chunks(nblocks)
           /\ pushRet \in {"unset", "page"}
           /\ apc = "idle" => (pushRet = "page" /\ gist.notion_page_id)
           /\ dpc = "done" => doc \in processed

\* a three-chunk page whose second chunk failed five times: the third chunk
\* was sent, push returned the page id and the document is in the ledger
C5_Witness ==
    /\ dpc = "done"
    /\ failed_chunks = <<2>>
    /\ sent = <<1, 2, 3>>
    /\ pushRet = "page"
    /\ doc \in processed

\* C7: a remote call of the publisher is attempted at most 5 times, the waits
\* between attempts are 2, 4, 8, 16 seconds and never above 30, and after the
\* fifth failed attempt the error of that attempt is raised to the caller.
C7_BoundedBackoff ==
    lastCall.op # "none" =>
        LET res == lastCall.res
        IN  /\ res.attempts <= 5
            /\ res.waits = SubSeq(<<2, 4, 8, 16>>, 1, res.attempts - 1)
            /\ \A i \in 1..Len(res.waits) : res.waits[i] <= 30
            /\ lastCall.b.fails >= 5 => (~res.ok /\ res.attempts = 5)
            /\ ~res.ok => res.err = lastCall.b.err

\* a chunk append that failed five times with a rate-limit answer
C7_Witness ==
    /\ lastCall.op = "append"
    /\ lastCall.b.err = "rate_limited"
    /\ ~lastCall.res.ok
    /\ lastCall.res.attempts = 5
    /\ lastCall.res.waits = <<2, 4, 8, 16>>

\* ------------------------------------------------------------------ PubSpec
\* C6: a call that fails with a non-transient error (validation,
\* authentication) is attempted exactly once, with no backoff wait.
C6_NonTransientOnce ==
    (lastCall.op # "none" /\ lastCall.b.err \in NonTransient
        /\ lastCall.b.fails >= 1)
        => /\ lastCall.res.attempts = 1
           /\ lastCall.res.waits = << >>

\* ----------------------------------------------------------------- TextSpec
\* the whole text has been parsed
TextDone == text # << >> /\ tidx = Len(text)

\* the rich_text runs of all blocks, in document order
RECURSIVE RunsFrom(_)
RunsFrom(k) ==
    IF k > Len(tblocks) THEN << >>
    ELSE [j \in 1..Len(tblocks[k].rich_text) |->
             [unit |-> tblocks[k].unit, run |-> tblocks[k].rich_text[j]]]
         \o RunsFrom(k + 1)

AllRuns == RunsFrom(1)

\* the runs cut from token k of line l of unit u, in document order
RunsOf(u, l, k) ==
    SelectSeq(AllRuns, LAMBDA r : r.unit = u /\ r.run.line = l /\ r.run.tok = k)

\* the runs of a token give back its characters, first to last
TokenKept(u, l, k) ==
    LET rs == RunsOf(u, l, k)
    IN  /\ rs # << >>
        /\ rs[1].run.from = 0
        /\ \A j \in 1..(Len(rs) - 1) :
             rs[j + 1].run.from = rs[j].run.from + rs[j].run.len
        /\ rs[Len(rs)].run.from + rs[Len(rs)].run.len
             = text[u].lines[l].tokens[k].len

\* C11: a text of one paragraph of plain characters, longer than 2000, gives
\* ceil(L / 2000) paragraph blocks in order, each of 2000 characters except
\* possibly the last.
C11_LongPlainTextSplit ==
    (/\ TextDone
     /\ Len(text) = 1
     /\ text[1].kind = "paragraph"
     /\ Len(text[1].lines[1].tokens) = 1
     /\ text[1].lines[1].tokens[1].t = "plain"
     /\ text[1].lines[1].tokens[1].len > 2000)
    => LET L == text[1].lines[1].tokens[1].len
           n == (L + 1999) \div 2000
       IN  /\ Len(tblocks) = n
           /\ \A k \in 1..n :
                /\ tblocks[k].type = "paragraph"
                /\ Len(tblocks[k].rich_text) = 1
                /\ tblocks[k].rich_text[1].from = 2000 * (k - 1)
                /\ tblocks[k].rich_text[1].len =
                     IF k < n THEN 2000 ELSE L - 2000 * (n - 1)

\* C12: the texts of all runs of all blocks, in document order, give back
\* the content characters of the input: every token of every line is there
\* in full, whatever block its unit becomes.
C12_Lossless ==
    TextDone =>
        /\ \A u \in 1..Len(text) : \A l \in 1..Len(text[u].lines) :
             \A k \in 1..Len(text[u].lines[l].tokens) : TokenKept(u, l, k)
        /\ \A i \in 1..Len(AllRuns) : \A j \in 1..Len(AllRuns) :
             i < j => \/ AllRuns[i].unit < AllRuns[j].unit
                      \/ /\ AllRuns[i].unit = AllRuns[j].unit
                         /\ \/ AllRuns[i].run.line < AllRuns[j].run.line
                            \/ /\ AllRuns[i].run.line = AllRuns[j].run.line
                               /\ AllRuns[i].run.tok <= AllRuns[j].run.tok

\* C13: every block has at most 2000 characters of text, summed over its
\* rich_text runs.
C13_BlockLengthBound ==
    \A k \in 1..Len(tblocks) : RunsLen(tblocks[k].rich_text) <= 2000

\* ------------------------------------------------- PubSpec, chunk partition
\* C14: the append calls carry contiguous slices of the block list in order,
\* each of at most 100 blocks and each but the last of exactly 100; when the
\* function returns the slices add up to the whole list, and an empty list
\* gives no call.
C14_ChunksPartitionBlocks ==
    /\ \A k \in 1..Len(requests) :
         /\ requests[k].first = 100 * (k - 1)
         /\ requests[k].len >= 1
         /\ requests[k].len <= 100
         /\ \/ requests[k].len = 100
            \/ requests[k].first + requests[k].len = nblocks
    /\ apc = "returned" =>
         IF nblocks = 0 THEN requests = << >>
         ELSE /\ requests # << >>
              /\ requests[Len(requests)].first + requests[Len(requests)].len
                   = nblocks

\* a list of 101 blocks sent as a chunk of 100 and a chunk of 1
C14_Witness ==
    /\ apc = "returned"
    /\ Len(requests) = 2
    /\ requests[1].len = 100
    /\ requests[2].len = 1

\* ------------------------------------------ DocSpec, requests of a publish
\* blocks carried by one append request: the blocks of the slice and the
\* children nested in them
RequestBlocks(req) ==
    LET bs == BuildContentBlocks(gist)
        RECURSIVE Nested(_)
        Nested(i) == IF i > req.first + req.len THEN 0
                     ELSE bs[i].children + Nested(i + 1)
    IN  req.len + Nested(req.first + 1)

\* C15: no append request carries more than 100 blocks, the children of the
\* toggle block included.
C15_RequestWithinLimit ==
    \A k \in 1..Len(requests) :
        dpc # "idle" => RequestBlocks(requests[k]) <= 100

\* 0-based index of the block that opens the original-email section
EmailSectionIndex(g) ==
    LET bs == BuildContentBlocks(g)
    IN  (CHOOSE i \in 1..Len(bs) : bs[i].type = "toggle") - 1

\* C16: for a published gist the chunk that holds the start of the
\* original-email section is critical: when it has failed all its attempts
\* the publish is aborted.
C16_EmailSectionChunkCritical ==
    [][ (/\ dpc = "append"
         /\ sent' # sent
         /\ ~lastCall'.res.ok
         /\ gist.raw
         /\ (offset \div 100) + 1 = (EmailSectionIndex(gist) \div 100) + 1)
        => apc' = "raised" ]_vars

\* ----------------------------------------------------- PubSpec, abort rule
\* C17: when _append_blocks_in_chunks ends by raising, one of the failed
\* chunks is critical (chunk 1 or the chunk of the email-content index); a
\* pass in which only other chunks failed does not raise.
C17_AbortNeedsCriticalFailure ==
    apc = "raised" =>
        \E j \in 1..Len(failed_chunks) :
            \/ failed_chunks[j] = 1
            \/ /\ email_idx # Nil
               /\ failed_chunks[j] = (email_idx \div 100) + 1

\* chunk 2 failed and was passed over, then the chunk of the email content,
\* chunk 3, failed and the function raised
C17_Witness ==
    /\ apc = "raised"
    /\ email_idx \div 100 = 2
    /\ failed_chunks = <<2, 3>>

\* ------------------------------------------- DocSpec, ledger and counters
\* C18: every document handled by the loop gets exactly one ledger write,
\* mark_processed or record_error.
C18_ExactlyOneLedgerWrite ==
    dpc = "done" => Len(ledgerCalls) = 1

\* a stage of the document failed: the extractor gave no gist, or the Notion
\* publish was given up
StageFailed == gist.fallback \/ pushRet \in {"None", "raised"}

\* C19: a document with a failed stage raises the errors counter, gets an
\* error record and no processed mark, and is counted as skipped.
C19_StageFailureIsSkip ==
    (dpc = "done" /\ StageFailed)
        => /\ dstats.errors >= 1
           /\ doc \in errlog
           /\ doc \notin processed
           /\ dstats.emails_skipped = 1
           /\ dstats.emails_processed = 0

\* C20: a document whose extraction failed gets an error record in the
\* ledger and is not marked processed.
C20_ExtractorFailureIsSkip ==
    (dpc = "done" /\ gist.fallback)
        => /\ "record_error" \in { ledgerCalls[i] : i \in 1..Len(ledgerCalls) }
           /\ "mark_processed" \notin
                { ledgerCalls[i] : i \in 1..Len(ledgerCalls) }

\* --------------------------------------------------- Spec, status snapshot
StatFields == {"emails_found", "emails_processed", "emails_skipped",
               "gists_created", "notion_published", "local_saved", "errors"}

\* C21: between the start and the end of a run no counter of the status
\* snapshot decreases: every step other than the start of a run leaves each
\* counter of _last_run at least as large as it was.
C21_CountersMonotone ==
    [][ (/\ last_run.exists
         /\ ~(\E r \in Runs : pc[r] = "set" /\ pc'[r] = "connect"))
        => \A f \in StatFields : last_run'.stats[f] >= last_run.stats[f] ]_vars

\* C22: while a run body executes, the status snapshot says running with
\* finished_at unset.
C22_SnapshotSaysRunning ==
    \A r \in Runs :
        InBody(r) => /\ last_run.exists
                     /\ last_run.running
                     /\ ~last_run.finished_at

\* C23: a run request rejected because a run is in progress leaves _last_run
\* and _is_running as they were.
C23_RejectionChangesNothing ==
    [][ (\E r \in Runs : \/ pc[r] = "guard" /\ pc'[r] = "rejected"
                         \/ pc[r] = "rejected" /\ pc'[r] = "idle")
        => /\ last_run' = last_run
           /\ is_running' = is_running ]_vars

\* a request is being answered with the already-running result while the
\* run in progress is in its loop
C23_Witness ==
    \E r \in Runs : \E q \in Runs :
        /\ pc[r] = "rejected"
        /\ pc[q] = "loop"
        /\ is_running
        /\ last_run.running

\* ------------------------------------------------- DocSpec, order of calls
\* C24: push creates the page before any block is appended and appends
\* nothing when the creation failed; the chunks are sent in index order, the
\* next one only after the call of the one before has succeeded or used up
\* its attempts.
C24_CreateThenChunksInOrder ==
    [][ /\ (lastCall.op = "create" /\ ~lastCall.res.ok) => sent' = << >>
        /\ sent' # sent =>
             /\ sent' = Append(sent, Len(sent) + 1)
             /\ IF sent = << >>
                THEN lastCall.op = "create" /\ lastCall.res.ok
                ELSE /\ lastCall.op = "append"
                     /\ lastCall.res.ok \/ lastCall.res.attempts = 5 ]_vars

\* the second chunk has been sent after the first one was accepted
C24_Witness ==
    /\ dpc = "append"
    /\ sent = <<1, 2>>
    /\ failed_chunks = << >>
    /\ lastCall.op = "append"

\* C26: push never raises for a remote failure: whatever error ends the page
\* creation or a chunk append, it returns None.
C26_PushNeverRaises == pushRet # "raised"

C28_FetchBoundedFreshDistinct ==
    [][last_fetch' # last_fetch =>
          LET raw_emails == last_fetch'.raw_emails
          IN /\ Len(raw_emails) <= last_fetch'.limit
             /\ \A k \in 1..Len(raw_emails) : ~is_processed(raw_emails[k])
             /\ \A j, k \in 1..Len(raw_emails) :
                    raw_emails[j] = raw_emails[k] => j = k]_vars

\* an email carrying both matching labels is returned once although the limit
\* leaves room, and the other unread labelled email is held back by the ledger
C28_Witness ==
    /\ last_fetch.limit = 2
    /\ last_fetch.raw_emails = <<2>>
    /\ inbox[2] = [labels |-> Labels, seen |-> FALSE]
    /\ inbox[1] = [labels |-> {matching_labels[1]}, seen |-> FALSE]
    /\ is_processed(1)

\* C29: an email is marked as processed in Gmail (labels removed, marked
\* read) only after its gist was written to Notion; an email whose Notion
\* write failed or was skipped keeps its label and unread state.
C29_GmailMarkNeedsNotionPage ==
    \A e \in gmail_marked : e = doc /\ gist.notion_page_id

\* C30: start_scheduler returns True only when the call started the
\* scheduler; called on a scheduler that is already running it returns False
\* and POST /api/tasks/start answers 400.
C30_StartReturnsTrueOnlyIfStarted ==
    start_response # NoResponse =>
        /\ start_response.returned => start_response.before = "stopped"
        /\ start_response.before # "stopped" =>
              ~start_response.returned /\ start_response.code = 400

UnitOf(i) == Strip(Paragraphs(md_content)[i])

BlocksOf(i) == SelectSeq(md_blocks, LAMBDA b : b.para = i)

KindOf(type) ==
    IF type \in {"heading_1", "heading_2", "heading_3"} THEN "heading"
    ELSE type

\* the kind the leading token of a unit stands for
LeadKind(u) ==
    IF u[1] = "#" THEN "heading"
    ELSE IF u[1] = FENCE THEN "code"
    ELSE IF u[1] \in {"-", "*"} /\ Len(u) >= 2 /\ u[2] = " "
         THEN "bulleted_list_item"
    ELSE IF u[1] = "1." /\ Len(u) >= 2 /\ u[2] \in Whitespace
         THEN "numbered_list_item"
    ELSE "paragraph"

\* the lines of a unit that carry the marker of its kind
MarkerLines(u) ==
    LET ls == Split(u, <<NL>>)
    IN  { l \in 1..Len(ls) :
            Strip(ls[l]) # << >> /\ LeadKind(Strip(ls[l])) = LeadKind(u) }

\* the lines that carry the marker and some text besides marker characters
TextLines(u) ==
    LET ls == Split(u, <<NL>>)
    IN  { l \in MarkerLines(u) :
            \E k \in 1..Len(ls[l]) : ls[l][k] \notin {"-", "*", " "} }

\* what C32 says of a unit, the number of its list items left open
UnitRule(i, items) ==
    LET u == UnitOf(i)
        bs == BlocksOf(i)
    IN  IF u = << >> THEN bs = << >>
        ELSE /\ \A k \in 1..Len(bs) : KindOf(bs[k].type) = LeadKind(u)
             /\ LeadKind(u) = "heading" =>
                  (Len(bs) = 0 <=> \A k \in 1..Len(u) : u[k] = "#")
             /\ LeadKind(u) = "bulleted_list_item" => Len(bs) = items
             /\ LeadKind(u) = "numbered_list_item" =>
                  Len(bs) = Cardinality(MarkerLines(u))
             /\ LeadKind(u) = "paragraph" => Len(bs) >= 1

C33_RunFinishesBookkeeping ==
    \A r \in Runs :
        (pc[r] = "set") ~>
            \/ mainState = "exited"
            \/ /\ pc[r] = "idle"
               /\ ~is_running
               /\ ~last_run.running
               /\ last_run.finished_at

\* C34: POST /api/tasks/reset affects only the run state: with no signal
\* delivered, and whatever resets are made, the main loop of run_scheduled
\* goes on polling (so the scheduler is not shut down and the ledger is not
\* closed by its finally).
C34_ResetKeepsServiceUp == mainState = "polling"

\* C35: in every state of the step of one fetched document, notion_published
\* <= gists_created <= emails_processed, and the document is counted in at
\* most one of emails_processed and emails_skipped, in exactly one of them
\* when the step is done.
C35_CountersConsistent ==
    /\ dstats.notion_published <= dstats.gists_created
    /\ dstats.gists_created <= dstats.emails_processed
    /\ dstats.emails_processed + dstats.emails_skipped <= Cardinality({doc})
    /\ dpc = "done" =>
          dstats.emails_processed + dstats.emails_skipped = Cardinality({doc})

\* C36: in _publish_gist the two publishers are independent: when the Notion
\* publish fails, whatever the error, the local publisher is attempted next
\* for the same gist; and the attempt of the local publisher leaves the
\* result of the Notion publish as it was.
C36_PublishersIndependent ==
    [][ /\ (pushRet = "unset" /\ pushRet' \in {"None", "raised"}
               /\ publishers.local)
           => dpc' = "local"
        /\ (dpc = "local" /\ dpc' # "local")
           => /\ pushRet' = pushRet
              /\ gist'.notion_page_id = gist.notion_page_id ]_vars

\* C37: whenever start_scheduler returns True to POST /api/tasks/start, the
\* scheduler is then in the running state, not paused, also when start is
\* called after pause_scheduler.
C37_StartedMeansRunning ==
    [][ (start_response' # start_response /\ start_response'.returned)
           => scheduler' = "running" ]_vars

\* C38: after the fetch step of run_once, emails_found equals the number of
\* unprocessed emails fetch_unprocessed returned, and each loop iteration
\* processes one of the returned emails, in order.
C38_FoundEqualsReturnedEmails ==
    \A r \in Runs :
        (pc[r] \in {"loop", "process"} /\ emails[r] # << >>) =>
            /\ stats[r].emails_found = Len(FetchUnprocessed[1].items)
            /\ pc[r] = "process" =>
                   /\ IsRawEmail(emails[r][idx[r] + 1])
                   /\ emails[r][idx[r] + 1] = FetchUnprocessed[1].items[idx[r] + 1]

=============================================================================
